---- MODULE Spec2Model ----
(***************************************************************************)
(* Piolet assistant: the PDF ingestion pipeline (sync_pdfs.py), the file   *)
(* ingestion pipeline (src/pg_ingest.py) and the hybrid retrieval engine   *)
(* (rag_search.py) over the rag_chunks table.                              *)
(*                                                                         *)
(* Texts are sequences of one-character strings.  The table rag_chunks is  *)
(* the set `store` of committed rows.  uuid.uuid4() is modelled as a fresh *)
(* value: the triple (process, position in the document list, counter).    *)
(***************************************************************************)
EXTENDS Integers, Sequences, FiniteSets, TLC

VARIABLES
  fs,               \* the files on disk: path -> Missing, Corrupt or a pdf with its pages' raw text
  store,            \* rag_chunks: the set of committed rows
  pc,               \* where each process stands
  idx,              \* position of each process in its document list (1-based)
  all_chunks,       \* ingest_pdf: the chunk list of the call in progress (or last call)
  bi,               \* ingest_pdf: i of "for i in range(0, len(all_chunks), batch_size)"
  total_processed,  \* ingest_pdf: the counter it returns
  total_chunks,     \* main: sum of the values returned so far
  results,          \* per process: outcome of every document attempted, in order
  calls,            \* per process: the batches of the call in progress (or last call) and how each ended
  search,           \* the last search_context call: its arguments and how it ended
  answer,           \* the last answer_with_context call (direct or through /api/chat) and how it ended
  chunking,         \* a call of chunk_text on its own: its arguments and what it returned
  upsert,           \* a call of upsert_rows or upsert_chunks on its own: its rows and how it ended
  retrieve          \* the last retrieve_context call: its arguments and how it ended

vars == <<fs, store, pc, idx, all_chunks, bi, total_processed, total_chunks, results, calls, search, answer,
          chunking, upsert, retrieve>>

(***************************************************************************)
(* Bounds and scaled parameters                                            *)
(***************************************************************************)
\* pages of one document
MaxPages == 2
\* ingest_pdf calls chunk_text(page_text, max_chars=1200, overlap=150) and cuts
\* batches of 80 chunks; the model keeps the three numbers small so that several
\* fragments per page and several batches per document fit in short texts.
PdfMaxChars == 3
PdfOverlap == 1
batch_size == 2

Procs == {1, 2}
\* None where a string is expected (url), and None where a vector is expected
None == "None"
NoVector == <<>>
\* a path with no file, and a file pdfplumber cannot open
Missing == [kind |-> "missing", pages |-> <<>>]
Corrupt == [kind |-> "corrupt", pages |-> <<>>]

Max(a, b) == IF a >= b THEN a ELSE b
Min(a, b) == IF a <= b THEN a ELSE b

(***************************************************************************)
(* Strings                                                                 *)
(***************************************************************************)
Whitespace == {" ", "\n"}
\* the characters re.sub(r'[^\w\s\.\,\;\:\!\?\-\(\)\[\]]', ' ', text) keeps
Kept == {"a", "b", ".", " ", "\n"}

\* python s[a:b] with 0 <= a
Slice(s, a, b) == SubSeq(s, a + 1, Min(b, Len(s)))

\* python s.rfind(c): the 0-based index of the last c, -1 when there is none
rfind(s, c) ==
  LET P == {j \in 1..Len(s) : s[j] = c}
  IN IF P = {} THEN -1 ELSE (CHOOSE j \in P : \A q \in P : q <= j) - 1

\* python s.strip()
RECURSIVE lstrip(_)
lstrip(s) == IF s # <<>> /\ Head(s) \in Whitespace THEN lstrip(Tail(s)) ELSE s
RECURSIVE rstrip(_)
rstrip(s) ==
  IF s # <<>> /\ s[Len(s)] \in Whitespace THEN rstrip(SubSeq(s, 1, Len(s) - 1)) ELSE s
strip(s) == rstrip(lstrip(s))

\* re.sub(r'\s+', ' ', s): every run of whitespace becomes one space
RECURSIVE CollapseWs(_, _)
CollapseWs(s, prevWs) ==
  IF s = <<>> THEN <<>>
  ELSE IF Head(s) \in Whitespace
       THEN (IF prevWs THEN <<>> ELSE <<" ">>) \o CollapseWs(Tail(s), TRUE)
       ELSE <<Head(s)>> \o CollapseWs(Tail(s), FALSE)

\* variant that collapses the whitespace without trimming
CollapseOnly(s) == CollapseWs(s, FALSE)

\* " ".join(s.split())
JoinSplit(s) == strip(CollapseWs(s, FALSE))

clean_text(text) ==
  IF text = <<>> THEN <<>>
  ELSE LET subbed == [j \in 1..Len(text) |-> IF text[j] \in Kept THEN text[j] ELSE " "]
       IN strip(CollapseWs(subbed, FALSE))

(***************************************************************************)
(* chunk_text                                                              *)
(***************************************************************************)
\* variant whose window runs to the end of the text
RestOfText(txt, i, max_chars) == Slice(txt, i, Len(txt))

\* variant that never trims: the raw window
RawWindow(txt, i, max_chars) == Slice(txt, i, i + max_chars)

\* one window of the while loop: the piece cut at position i
Piece(txt, i, max_chars) ==
  LET piece == Slice(txt, i, i + max_chars)
      j == rfind(piece, " ")
  IN IF i + max_chars < Len(txt) /\ j > 0 THEN Slice(piece, 0, j) ELSE piece

\* variant without the floor of 1
AdvanceByOverlap(piece, overlap) == Len(piece) - overlap

\* variant that also steps over the character after the piece
AdvancePastPiece(piece, overlap) == Max(1, Len(piece) - overlap) + 1

\* i += max(1, len(piece) - overlap)
Advance(piece, overlap) == Max(1, Len(piece) - overlap)

\* variant that keeps every piece
AnyPiece(piece) == TRUE

\* "if piece.strip()" and "if txt.strip()"
NonBlank(piece) == strip(piece) # <<>>

RECURSIVE ChunkLoop(_, _, _, _, _)
ChunkLoop(txt, i, chunks, max_chars, overlap) ==
  IF ~(i < Len(txt)) THEN chunks
  ELSE LET piece == Piece(txt, i, max_chars)
       IN ChunkLoop(txt, i + Advance(piece, overlap),
                    IF NonBlank(piece) THEN Append(chunks, piece) ELSE chunks,
                    max_chars, overlap)

chunk_text(t, max_chars, overlap) ==
  LET txt == JoinSplit(t)
  IN IF Len(txt) <= max_chars
     THEN (IF NonBlank(txt) THEN <<txt>> ELSE <<>>)
     ELSE ChunkLoop(txt, 0, <<>>, max_chars, overlap)

(***************************************************************************)
(* sync_pdfs.py: extraction                                                *)
(***************************************************************************)
\* what page.extract_text() gives for one page: nothing, only characters that
\* clean_text blanks, a short text, a text of two words longer than PdfMaxChars
PageTexts ==
  { <<>>, <<"#">>, <<" ", "a">>,
    [j \in 1..(PdfMaxChars + 1) |-> IF j = PdfMaxChars THEN "#" ELSE IF j < PdfMaxChars THEN "a" ELSE "b"] }

RECURSIVE SeqsUpTo(_, _)
SeqsUpTo(S, n) ==
  IF n = 0 THEN {<<>>}
  ELSE LET shorter == SeqsUpTo(S, n - 1)
       IN shorter \cup {Append(q, x) : q \in {r \in shorter : Len(r) = n - 1}, x \in S}

\* what a path can hold: no file, a file pdfplumber cannot open, or pages
Documents ==
  {Missing, Corrupt} \cup {[kind |-> "pdf", pages |-> ps] : ps \in SeqsUpTo(PageTexts, MaxPages)}

\* extract_text_from_pdf on a file that opens: one entry per page
\* variant without clean_text: a page counts as text as soon as it holds a character
extract_raw_text(pages) ==
  [n \in 1..Len(pages) |->
     IF pages[n] # <<>>
     THEN [page_number |-> n, text |-> pages[n], has_text |-> TRUE]
     ELSE [page_number |-> n, text |-> <<>>, has_text |-> FALSE]]

extract_text_from_pdf(pages) ==
  [n \in 1..Len(pages) |->
     LET text == pages[n]
         cleaned == clean_text(text)
     IN IF text # <<>> /\ strip(cleaned) # <<>>
        THEN [page_number |-> n, text |-> cleaned, has_text |-> TRUE]
        ELSE [page_number |-> n, text |-> <<>>, has_text |-> FALSE]]

(***************************************************************************)
(* sync_pdfs.py: ingest_pdf, chunk preparation                             *)
(***************************************************************************)
pdfs_to_process ==
  << [path |-> "PIOLET-chatbot-pdf.pdf", doc_type |-> "kb", doc_id |-> "kb_v8_2025-08-22",
      title |-> "PIOLET Master KB v8", use_ocr |-> FALSE],
     [path |-> "Guia practica Piolet(5).pdf", doc_type |-> "guide", doc_id |-> "guide_practica_v5",
      title |-> "Guia practica PIOLET", use_ocr |-> FALSE] >>

Paths == {pdfs_to_process[n].path : n \in 1..Len(pdfs_to_process)}

\* str(uuid.uuid4()): a value no other chunk of any call carries
uuid4(run, n) == <<run[1], run[2], n>>

\* "chunk_index": chunk_counter (chunk_idx is the enumerate index inside the page)
\* variant numbering the chunks per page
ChunkIndexInPage(chunk_counter, chunk_idx) == chunk_idx

ChunkIndexOf(chunk_counter, chunk_idx) == chunk_counter

\* the dict built for one fragment; main passes locale="es", base_url=None
chunk_data(run, cfg, page_number, chunk_counter, chunk_idx, txt) ==
  [id |-> uuid4(run, chunk_counter),
   doc_type |-> cfg.doc_type,
   doc_id |-> cfg.doc_id,
   title |-> <<cfg.title, page_number>>,
   url |-> None,
   locale |-> "es",
   chunk_index |-> ChunkIndexOf(chunk_counter, chunk_idx),
   text |-> txt,
   embedding |-> NoVector]

\* the loop over pages_data that fills all_chunks
RECURSIVE BuildChunks(_, _, _, _, _, _)
BuildChunks(run, cfg, pages_data, n, chunk_counter, acc) ==
  IF n > Len(pages_data) THEN acc
  ELSE IF ~pages_data[n].has_text
       THEN BuildChunks(run, cfg, pages_data, n + 1, chunk_counter, acc)
       ELSE LET chunks == chunk_text(pages_data[n].text, PdfMaxChars, PdfOverlap)
                new == [k \in 1..Len(chunks) |->
                          chunk_data(run, cfg, pages_data[n].page_number,
                                     chunk_counter + k - 1, k - 1, chunks[k])]
            IN BuildChunks(run, cfg, pages_data, n + 1, chunk_counter + Len(chunks), acc \o new)

\* lines 219-252 of ingest_pdf for every call a run can make: extraction, then the
\* chunk list.  The list depends on the caller, the document and the file only, so
\* it is tabulated once.
ChunkTable ==
  {<<p, n, file,
     BuildChunks(<<p, n>>, pdfs_to_process[n], extract_text_from_pdf(file.pages), 1, 0, <<>>)>> :
       p \in Procs, n \in 1..Len(pdfs_to_process), file \in Documents}

PreparedChunks(p, n, file) ==
  (CHOOSE t \in ChunkTable : t[1] = p /\ t[2] = n /\ t[3] = file)[4]

(***************************************************************************)
(* Embedding service and table                                             *)
(***************************************************************************)
\* the vector the embedding model gives for a text (one dimension is enough here)
Embedding(text) == <<Len(text)>>

\* variant that replaces the whole row that holds the id
ReplaceRow(table, row) == {r \in table : r.id # row.id} \cup {row}

\* INSERT ... ON CONFLICT (id) DO UPDATE SET text, embedding, title, url, locale
UpsertRow(table, row) ==
  IF \E r \in table : r.id = row.id
  THEN {IF r.id = row.id
        THEN [r EXCEPT !.text = row.text, !.embedding = row.embedding,
                       !.title = row.title, !.url = row.url, !.locale = row.locale]
        ELSE r : r \in table}
  ELSE table \cup {row}

RECURSIVE UpsertAll(_, _, _)
UpsertAll(table, rows, n) ==
  IF n > Len(rows) THEN table ELSE UpsertAll(UpsertRow(table, rows[n]), rows, n + 1)

\* upsert_rows when the transaction commits
upsert_rows(table, rows) == UpsertAll(table, rows, 1)

(***************************************************************************)
(* sync_pdfs.py: ingest_pdf and main as processes                          *)
(*   pc = "main"  : at the head of "for pdf_config in pdfs_to_process"     *)
(*   pc = "batch" : inside ingest_pdf, at the head of the batch loop       *)
(*   pc = "done"  : main has logged "Proceso completado"                   *)
(*   pc = "off"   : the process was never started                          *)
(***************************************************************************)
\* what embed_batch(texts) can do: raise, or return the vectors of response.data
EmbedOutcomes(batch) ==
  {[raised |-> TRUE, n |-> 0]} \cup {[raised |-> FALSE, n |-> k] : k \in 0..Len(batch)}

\* for chunk, embedding in zip(batch, embeddings): chunk["embedding"] = embedding
zip_assign(batch, n) ==
  [k \in 1..Len(batch) |->
     IF k <= n THEN [batch[k] EXCEPT !.embedding = Embedding(batch[k].text)] ELSE batch[k]]

(***************************************************************************)
(* chunk_text called on its own                                            *)
(***************************************************************************)
\* the longest text, the largest max_chars and the largest overlap it is called with
MaxTextLen == 5
MaxChars == 3
MaxOverlap == 3

TextChars == {"a", "b", " ", "\n"}
Texts == SeqsUpTo(TextChars, MaxTextLen)

NoChunking ==
  [status |-> "idle", text |-> <<>>, max_chars |-> 0, overlap |-> 0, out |-> <<>>,
   txt |-> <<>>, i |-> 0, iterations |-> 0, windows |-> <<>>]

\* the call chunk_text(text, max_chars, overlap) about to run
Called(text, max_chars, overlap) ==
  [NoChunking EXCEPT !.status = "called", !.text = text, !.max_chars = max_chars, !.overlap = overlap]

\* chunk_text(text, max_chars, overlap) from call to return
ChunkText ==
  /\ chunking.status = "called"
  /\ chunking' = [chunking EXCEPT !.status = "returned",
                                  !.out = chunk_text(chunking.text, chunking.max_chars, chunking.overlap)]
  /\ UNCHANGED <<fs, upsert, retrieve, store, pc, idx, all_chunks, bi, total_processed, total_chunks, results, calls,
                 search, answer>>

\* chunk_text statement by statement: the normalization and the short-text return
ChunkEnter ==
  /\ chunking.status = "called"
  /\ LET txt == JoinSplit(chunking.text)
     IN chunking' =
          IF Len(txt) <= chunking.max_chars
          THEN [chunking EXCEPT !.status = "returned", !.txt = txt,
                                !.out = IF NonBlank(txt) THEN <<txt>> ELSE <<>>]
          ELSE [chunking EXCEPT !.status = "looping", !.txt = txt, !.i = 0, !.out = <<>>]
  /\ UNCHANGED <<fs, upsert, retrieve, store, pc, idx, all_chunks, bi, total_processed, total_chunks, results, calls,
                 search, answer>>

\* one iteration of "while i < len(txt)"; windows keeps where each piece was cut
ChunkIter ==
  /\ chunking.status = "looping"
  /\ chunking.i < Len(chunking.txt)
  /\ LET piece == Piece(chunking.txt, chunking.i, chunking.max_chars)
     IN chunking' =
          [chunking EXCEPT
             !.out = IF NonBlank(piece) THEN Append(@, piece) ELSE @,
             !.i = @ + Advance(piece, chunking.overlap),
             !.iterations = @ + 1,
             !.windows = Append(@, [start |-> chunking.i, piece |-> piece, kept |-> NonBlank(piece)])]
  /\ UNCHANGED <<fs, upsert, retrieve, store, pc, idx, all_chunks, bi, total_processed, total_chunks, results, calls,
                 search, answer>>

\* the loop test fails: return chunks
ChunkReturn ==
  /\ chunking.status = "looping"
  /\ ~(chunking.i < Len(chunking.txt))
  /\ chunking' = [chunking EXCEPT !.status = "returned"]
  /\ UNCHANGED <<fs, upsert, retrieve, store, pc, idx, all_chunks, bi, total_processed, total_chunks, results, calls,
                 search, answer>>

\* variant without the transaction: the rows written before the failing statement stay
partial_write(table, rows) == UpsertRow(table, rows[1])

\* "with conn" of upsert_rows when a statement fails: the transaction is rolled back
rolled_back(table, rows) == table

\* variant with "break" in place of "continue": the loop ends at the failed batch
except_break(i, n) == n

\* "except Exception: continue" of the batch loop: the next i of range(0, n, batch_size)
except_continue(i, n) == i + batch_size

\* variant without the try/except of main: the exception ends the run
main_no_except(i, n) == n + 1

\* "except Exception as e: ... continue" of both main loops: on to document i + 1 of n
main_except_continue(i, n) == i + 1

\* ingest_pdf returns `value` to main, or raises into main's "except Exception"
Returns(p, cfg, raised, value) ==
  /\ results' = [results EXCEPT ![p] = Append(@, [path |-> cfg.path, raised |-> raised, ret |-> value])]
  /\ total_chunks' = [total_chunks EXCEPT ![p] = @ + value]
  /\ idx' = [idx EXCEPT ![p] =
        IF raised THEN main_except_continue(@, Len(pdfs_to_process)) ELSE @ + 1]
  /\ pc' = [pc EXCEPT ![p] = "main"]

\* main calls ingest_pdf for the next document: existence check, extraction, chunking
IngestStart(p) ==
  /\ pc[p] = "main"
  /\ idx[p] <= Len(pdfs_to_process)
  /\ LET cfg == pdfs_to_process[idx[p]]
         file == fs[cfg.path]
         chunks == PreparedChunks(p, idx[p], file)
     IN /\ calls' = [calls EXCEPT ![p] = <<>>]
        /\ bi' = [bi EXCEPT ![p] = 0]
        /\ total_processed' = [total_processed EXCEPT ![p] = 0]
        /\ UNCHANGED <<fs, upsert, retrieve, store, search, answer, chunking>>
        /\ IF file.kind = "missing"
           THEN Returns(p, cfg, FALSE, 0) /\ all_chunks' = [all_chunks EXCEPT ![p] = <<>>]
           ELSE IF file.kind = "corrupt"
           THEN Returns(p, cfg, TRUE, 0) /\ all_chunks' = [all_chunks EXCEPT ![p] = <<>>]
           ELSE IF Len(chunks) = 0
           THEN Returns(p, cfg, FALSE, 0) /\ all_chunks' = [all_chunks EXCEPT ![p] = <<>>]
           ELSE /\ all_chunks' = [all_chunks EXCEPT ![p] = chunks]
                /\ pc' = [pc EXCEPT ![p] = "batch"]
                /\ UNCHANGED <<results, total_chunks, idx>>

\* one iteration of the batch loop, and the return when it was the last one
Batch(p) ==
  /\ pc[p] = "batch"
  /\ LET i == bi[p]
         n == Len(all_chunks[p])
         cfg == pdfs_to_process[idx[p]]
         batch == Slice(all_chunks[p], i, i + batch_size)
     IN \E e \in EmbedOutcomes(batch), committed \in BOOLEAN :
          LET embedded == IF e.raised THEN batch ELSE zip_assign(batch, e.n)
              ok == ~e.raised /\ committed
              tp == IF ok THEN total_processed[p] + Len(batch) ELSE total_processed[p]
              nexti == IF ok THEN i + batch_size ELSE except_continue(i, n)
          IN /\ e.raised => committed
             /\ calls' = [calls EXCEPT ![p] = Append(@,
                    [lo |-> i, hi |-> i + Len(batch), embed_raised |-> e.raised,
                     vectors |-> e.n, db_raised |-> ~e.raised /\ ~committed])]
             /\ all_chunks' = [all_chunks EXCEPT ![p] =
                    [k \in 1..n |-> IF k > i /\ k <= i + Len(batch) THEN embedded[k - i] ELSE @[k]]]
             /\ store' = IF ok THEN upsert_rows(store, embedded)
                         ELSE IF e.raised THEN store ELSE rolled_back(store, embedded)
             /\ total_processed' = [total_processed EXCEPT ![p] = tp]
             /\ bi' = [bi EXCEPT ![p] = nexti]
             /\ UNCHANGED <<fs, upsert, retrieve, search, answer, chunking>>
             /\ IF nexti >= n
                THEN Returns(p, cfg, FALSE, tp)
                ELSE UNCHANGED <<results, total_chunks, idx, pc>>

\* the for loop of main is exhausted
MainDone(p) ==
  /\ pc[p] = "main"
  /\ idx[p] > Len(pdfs_to_process)
  /\ pc' = [pc EXCEPT ![p] = "done"]
  /\ UNCHANGED <<fs, upsert, retrieve, store, idx, all_chunks, bi, total_processed, total_chunks, results, calls, search, answer, chunking>>

(***************************************************************************)
(* src/pg_ingest.py: process_file, upsert_chunks and main                  *)
(*   pc = "pg_main" : at the head of "for file_path in files"              *)
(*   pc = "pg_done" : main has returned                                    *)
(***************************************************************************)
\* fragments per file
MaxPgChunks == 2

\* the files glob can find under data/, in sorted order
PgCandidates ==
  << [path |-> "data/a.md", basename |-> "a.md", suffix |-> ".md"],
     [path |-> "data/b.pdf", basename |-> "b.pdf", suffix |-> ".pdf"] >>

PgPaths == {PgCandidates[n].path : n \in 1..Len(PgCandidates)}

\* the fragments RecursiveCharacterTextSplitter can return for a file's cleaned text
PgFragments == { <<" ">>, <<"a">>, <<"b">> }

\* a file of data/: absent, unreadable (extract_text_from_file returns ""), or a text,
\* given by the fragments split_text_into_chunks cuts it into
PgDocuments ==
  {Missing, Corrupt} \cup {[kind |-> "text", pages |-> fr] : fr \in SeqsUpTo(PgFragments, MaxPgChunks)}

\* discover_files(): the existing files, sorted
discover_files(files) == SelectSeq(PgCandidates, LAMBDA c : files[c.path].kind # "missing")

\* what get_embedding does for each fragment of a file: a vector, an empty vector, or it raises
PgEmbedOutcomes(chunks) == [1..Len(chunks) -> {"vector", "empty", "raise"}]

\* process_file reaches get_embedding for the non-blank fragments only
PgRaises(chunks, o) == \E k \in 1..Len(chunks) : strip(chunks[k]) # <<>> /\ o[k] = "raise"

\* the file_chunks list process_file returns when no get_embedding call raises
RECURSIVE process_file(_, _, _, _, _, _)
process_file(run, f, chunks, o, k, acc) ==
  IF k > Len(chunks) THEN acc
  ELSE IF strip(chunks[k]) = <<>> \/ o[k] = "empty"
       THEN process_file(run, f, chunks, o, k + 1, acc)
       ELSE process_file(run, f, chunks, o, k + 1,
              Append(acc, [id |-> uuid4(run, k - 1),
                           doc_type |-> IF f.suffix = ".pdf" THEN "pdf" ELSE "document",
                           doc_id |-> f.basename,
                           title |-> <<f.basename, 0>>,
                           url |-> f.path,
                           locale |-> "es",
                           chunk_index |-> k - 1,
                           text |-> chunks[k],
                           embedding |-> Embedding(chunks[k])]))

\* upsert_chunks: one transaction for the whole file; a failing statement is logged
\* and rolled back inside upsert_chunks; a failing connect leaves conn unbound, so
\* the except clause raises into main
UpsertOutcomes == {"commit", "rollback", "connect_error"}

\* one iteration of main's loop: process_file, then upsert_chunks if there are chunks
PgFile(p) ==
  /\ pc[p] = "pg_main"
  /\ idx[p] <= Len(discover_files(fs))
  /\ LET f == discover_files(fs)[idx[p]]
         file == fs[f.path]
         chunks == IF file.kind = "text" THEN file.pages ELSE <<>>
     IN \E o \in PgEmbedOutcomes(chunks), u \in UpsertOutcomes :
          LET raised == PgRaises(chunks, o)
              file_chunks == IF raised THEN <<>> ELSE process_file(<<p, idx[p]>>, f, chunks, o, 1, <<>>)
              upserting == Len(file_chunks) > 0
              failed == raised \/ (upserting /\ u = "connect_error")
          IN /\ ~upserting => u = "commit"
             /\ store' = IF ~upserting THEN store
                         ELSE IF u = "commit" THEN UpsertAll(store, file_chunks, 1)
                         ELSE rolled_back(store, file_chunks)
             /\ all_chunks' = [all_chunks EXCEPT ![p] = file_chunks]
             /\ calls' = [calls EXCEPT ![p] =
                    IF upserting
                    THEN << [lo |-> 0, hi |-> Len(file_chunks), embed_raised |-> FALSE,
                             vectors |-> Len(file_chunks), db_raised |-> u # "commit"] >>
                    ELSE <<>>]
             /\ results' = [results EXCEPT ![p] = Append(@,
                    [path |-> f.path, raised |-> failed, ret |-> IF failed THEN 0 ELSE Len(file_chunks)])]
             /\ total_chunks' = [total_chunks EXCEPT ![p] = @ + (IF failed THEN 0 ELSE Len(file_chunks))]
             /\ idx' = [idx EXCEPT ![p] =
                    IF failed THEN main_except_continue(@, Len(discover_files(fs))) ELSE @ + 1]
             /\ UNCHANGED <<fs, upsert, retrieve, pc, bi, total_processed, search, answer, chunking>>

\* main returns: no file was found, or the loop is exhausted
PgDone(p) ==
  /\ pc[p] = "pg_main"
  /\ idx[p] > Len(discover_files(fs))
  /\ pc' = [pc EXCEPT ![p] = "pg_done"]
  /\ UNCHANGED <<fs, upsert, retrieve, store, idx, all_chunks, bi, total_processed, total_chunks, results, calls, search, answer, chunking>>

(***************************************************************************)
(* rag_search.py: search_context                                           *)
(***************************************************************************)
\* rows of the table a search is run against, and the largest k asked for
MaxRows == 2
MaxK == 2

\* NULL where a number is expected; a number v is <<v>>
Null == <<>>

Abs(x) == IF x < 0 THEN -x ELSE x

\* embedding <=> q of pgvector, on the one-dimensional vectors of the model
Distance(e, q) == Abs(e[1] - q[1])

\* 1 - (embedding <=> %s); NULL for a row without embedding
VectorSimilarity(row, q) ==
  IF row.embedding = NoVector THEN Null ELSE <<1 - Distance(row.embedding, q)>>

\* similarity(text, %s) of pg_trgm: how much of the query the text shares
Chars(t) == {t[j] : j \in 1..Len(t)}
TextSimilarity(row, query) == <<Cardinality(Chars(row.text) \cap Chars(query))>>

\* the WHERE clause built from locale and prefer_types ("1=1" when both are empty)
Where(row, locale, prefer_types) ==
  /\ locale # "" => row.locale = locale
  /\ prefer_types # <<>> => \E j \in 1..Len(prefer_types) : row.doc_type = prefer_types[j]

\* variant of a query without its WHERE clause
NoFilter(row, locale, prefer_types) == TRUE

\* WHERE {where_clause} of vector_query
VectorQueryWhere(row, locale, prefer_types) == Where(row, locale, prefer_types)

\* variant of text_query without its WHERE clause
TextNoFilter(row, locale, prefer_types) == TRUE

\* WHERE {where_clause} of text_query
TextQueryWhere(row, locale, prefer_types) == Where(row, locale, prefer_types)

\* ORDER BY distance ASC puts NULL last; on similarities that is the larger one first
Before(s1, s2) == s1 # Null /\ (s2 = Null \/ s1[1] > s2[1])

\* the answers a "SELECT ... WHERE ... ORDER BY ... LIMIT k" can give: the first k
\* rows of any ordering of the matching rows that agrees with ORDER BY (rows that
\* tie come in any order)
Select(rows, sim, k) ==
  LET m == Min(k, Cardinality(rows))
  IN {q \in [1..m -> rows] :
        /\ \A i, j \in 1..m : i < j => (q[i] # q[j] /\ ~Before(sim[q[j]], sim[q[i]]))
        /\ \A r \in rows : (\A i \in 1..m : q[i] # r) => \A i \in 1..m : ~Before(sim[r], sim[q[i]])}

\* the RealDictRow of one selected row
ResultRow(row, sim, pass) ==
  [doc_type |-> row.doc_type, doc_id |-> row.doc_id, title |-> row.title, url |-> row.url,
   text |-> row.text, chunk_index |-> row.chunk_index, similarity |-> sim, pass |-> pass]

\* result_id = f"{result['doc_id']}_{result['chunk_index']}"
result_id(result) == result.doc_id \o "_" \o ToString(result.chunk_index)

\* variant of the merge without the seen_ids test
AlwaysAppended(result, seen_ids) == TRUE

\* "if result_id not in seen_ids": is the result appended?
NotSeen(result, seen_ids) == result_id(result) \notin seen_ids

\* variant in which a result seen again replaces the entry already appended
RECURSIVE MergeLastWins(_, _, _, _)
MergeLastWins(found, n, all_results, seen_ids) ==
  IF n > Len(found) THEN all_results
  ELSE IF NotSeen(found[n], seen_ids)
       THEN MergeLastWins(found, n + 1, Append(all_results, found[n]), seen_ids \cup {result_id(found[n])})
       ELSE MergeLastWins(found, n + 1,
                          [m \in 1..Len(all_results) |->
                             IF result_id(all_results[m]) = result_id(found[n]) THEN found[n]
                             ELSE all_results[m]],
                          seen_ids)

\* the two loops over vector_results and text_results, run over their concatenation
RECURSIVE Merge(_, _, _, _)
Merge(found, n, all_results, seen_ids) ==
  IF n > Len(found) THEN all_results
  ELSE IF NotSeen(found[n], seen_ids)
       THEN Merge(found, n + 1, Append(all_results, found[n]), seen_ids \cup {result_id(found[n])})
       ELSE Merge(found, n + 1, all_results, seen_ids)

\* list.sort(key=lambda x: x['similarity'], reverse=True): stable, largest first
RECURSIVE InsertDesc(_, _)
InsertDesc(sorted, x) ==
  IF sorted = <<>> THEN <<x>>
  ELSE IF x.similarity[1] > Head(sorted).similarity[1]
       THEN <<x>> \o sorted
       ELSE <<Head(sorted)>> \o InsertDesc(Tail(sorted), x)

RECURSIVE SortDesc(_, _)
SortDesc(xs, n) == IF n = 0 THEN <<>> ELSE InsertDesc(SortDesc(xs, n - 1), xs[n])

\* comparing None with a number raises TypeError; a list of one element is not compared
SortRaises(xs) == Len(xs) >= 2 /\ \E n \in 1..Len(xs) : xs[n].similarity = Null

\* all_results[:k]
Truncate(xs, k) == Slice(xs, 0, k)

\* what can go wrong outside the queries' answers
SearchFaults == {"none", "connect", "embedding", "vector_query", "text_query"}

\* search_context(query, k, locale, prefer_types) from call to return; the function
\* keeps nothing between calls, so one call per behaviour shows them all
SearchContext ==
  /\ search.status = "idle"
  /\ \E query \in {<<"a">>, <<"b", "b">>}, k \in 0..MaxK, locale \in {"", "es"},
     prefer_types \in {<<>>, <<"kb">>}, fault \in SearchFaults :
    LET vmatching == {r \in store : VectorQueryWhere(r, locale, prefer_types)}
        tmatching == {r \in store : TextQueryWhere(r, locale, prefer_types)}
        q == Embedding(query)
        VSim == [r \in vmatching |-> VectorSimilarity(r, q)]
        TSim == [r \in tmatching |-> TextSimilarity(r, query)]
    IN \E vs \in Select(vmatching, VSim, k), ts \in Select(tmatching, TSim, k) :
         LET vector_results == [n \in 1..Len(vs) |-> ResultRow(vs[n], VSim[vs[n]], "vector")]
             text_results == [n \in 1..Len(ts) |-> ResultRow(ts[n], TSim[ts[n]], "text")]
             all_results == Merge(vector_results \o text_results, 1, <<>>, {})
             caught == fault \in {"embedding", "vector_query", "text_query"} \/ SortRaises(all_results)
         IN search' =
              [query |-> query, k |-> k, locale |-> locale, prefer_types |-> prefer_types,
               fault |-> fault,
               vector_results |-> IF fault \in {"none", "text_query"} THEN vector_results ELSE <<>>,
               text_results |-> IF fault = "none" THEN text_results ELSE <<>>,
               all_results |-> IF fault = "none" THEN all_results ELSE <<>>,
               status |-> IF fault = "connect" THEN "raised" ELSE "returned",
               ret |-> IF fault = "connect" \/ caught THEN <<>>
                       ELSE Truncate(SortDesc(all_results, Len(all_results)), k),
               closed |-> fault # "connect"]
  /\ UNCHANGED <<fs, upsert, retrieve, store, pc, idx, all_chunks, bi, total_processed, total_chunks, results, calls, answer, chunking>>

(***************************************************************************)
(* src/pg_retrieve.py: answer_with_context, and app.py: chat               *)
(***************************************************************************)
\* top_k=5 of the call in chat
ChatTopK == 5

\* embedding <-> %s::vector of pgvector, on the one-dimensional vectors of the model
L2Distance(e, q) == Abs(e[1] - q[1])

\* "embedding <-> %s::vector AS dist"; NULL for a row without embedding
Dist(row, emb) == IF row.embedding = NoVector THEN Null ELSE <<L2Distance(row.embedding, emb)>>

\* ORDER BY dist ASC as a rank for Select: the smaller distance first, NULL last
DistRank(row, emb) == IF row.embedding = NoVector THEN Null ELSE <<0 - L2Distance(row.embedding, emb)>>

\* variant of the query restricted to the locale of the call
RetrievedInLocale(row, locale) == row.locale = locale

\* "FROM rag_chunks" with no WHERE clause: every row is a candidate
Retrieved(row, locale) == TRUE

\* one tuple of cur.fetchall(): (doc_id, chunk_index, text, dist)
RetrievedRow(row, emb) ==
  [doc_id |-> row.doc_id, chunk_index |-> row.chunk_index, text |-> row.text, dist |-> Dist(row, emb)]

\* the replies: none, the fixed one of line 199, or what the model writes from a context
NoReply == [kind |-> "none", context |-> <<>>]
InsufficientReply == [kind |-> "insufficient", context |-> <<>>]
GeneratedReply(context) == [kind |-> "generated", context |-> context]

\* variant without the "if not rows" return
NeverEmpty(rows) == FALSE

\* "if not rows"
NoRows(rows) == rows = <<>>

\* sources = [r[0] for r in rows]
SourcesOf(rows) == [n \in 1..Len(rows) |-> rows[n].doc_id]

\* context = "\n\n".join([r[2] for r in rows]), kept as the list of texts
ContextOf(rows) == [n \in 1..Len(rows) |-> rows[n].text]

\* the calls of answer_with_context that can raise
AnswerFaults == {"none", "embedding", "connect", "query", "generation"}

\* answer_with_context(question, top_k, locale) when the query answers `selected`:
\* the statements run in order until one raises
answer_with_context(question, top_k, locale, fault, selected) ==
  LET emb == Embedding(question)
      rows == IF fault \in {"embedding", "connect", "query"} THEN <<>>
              ELSE [n \in 1..Len(selected) |-> RetrievedRow(selected[n], emb)]
      fetched == fault \notin {"embedding", "connect", "query"}
      generating == fetched /\ ~NoRows(rows)
      raised == ~fetched \/ (generating /\ fault = "generation")
  IN [question |-> question, top_k |-> top_k, locale |-> locale, fault |-> fault,
      connected |-> fault # "embedding",
      queried |-> fault \notin {"embedding", "connect"},
      closed |-> fault # "query",
      rows |-> rows,
      generated |-> generating,
      raised |-> raised,
      reply |-> IF raised THEN NoReply
                ELSE IF generating THEN GeneratedReply(ContextOf(rows)) ELSE InsufficientReply,
      sources |-> IF raised \/ ~generating THEN <<>> ELSE SourcesOf(rows)]

\* the outcomes of a call over the table, ties of ORDER BY taken in every order
AnswerOutcomes(table, question, top_k, locale, fault) ==
  LET emb == Embedding(question)
      candidates == {r \in table : Retrieved(r, locale)}
      rank == [r \in candidates |-> DistRank(r, emb)]
  IN {answer_with_context(question, top_k, locale, fault, selected) :
        selected \in Select(candidates, rank, top_k)}

\* the questions asked, and the bodies posted to /api/chat
Questions == {<<"a">>, <<"b", "b">>}
Requests ==
  {[kind |-> "invalid", content |-> <<>>], [kind |-> "no_messages", content |-> <<>>],
   [kind |-> "empty_list", content |-> <<>>], [kind |-> "message", content |-> <<" ">>]}
  \cup {[kind |-> "message", content |-> q] : q \in Questions}

NoCall ==
  [question |-> <<>>, top_k |-> 0, locale |-> "", fault |-> "none", connected |-> FALSE,
   queried |-> FALSE, closed |-> TRUE, rows |-> <<>>, generated |-> FALSE, raised |-> FALSE,
   reply |-> NoReply, sources |-> <<>>]

\* variant of the handler that answers a failed call with the fixed reply
chat_degraded(result) ==
  IF result.raised THEN [http |-> 200, reply |-> InsufficientReply, sources |-> <<>>]
  ELSE [http |-> 200, reply |-> result.reply, sources |-> result.sources]

\* chat after the call: the 200 response, or "except Exception" and the 500 response
chat_response(result) ==
  IF result.raised THEN [http |-> 500, reply |-> NoReply, sources |-> <<>>]
  ELSE [http |-> 200, reply |-> result.reply, sources |-> result.sources]

NoAnswer == [status |-> "idle", via |-> "none", call |-> NoCall, http |-> 0, reply |-> NoReply, sources |-> <<>>]

\* a direct call of answer_with_context (test_retrieval, the command line)
AnswerWithContext ==
  /\ answer.status = "idle"
  /\ \E question \in Questions, top_k \in 0..MaxK, locale \in {"es", "en"}, fault \in AnswerFaults :
       \E result \in AnswerOutcomes(store, question, top_k, locale, fault) :
         answer' = [status |-> IF result.raised THEN "raised" ELSE "returned", via |-> "direct",
                    call |-> result, http |-> 0, reply |-> result.reply, sources |-> result.sources]
  /\ UNCHANGED <<fs, upsert, retrieve, store, pc, idx, all_chunks, bi, total_processed, total_chunks, results, calls, search, chunking>>

\* POST /api/chat from the request to the response
Chat ==
  /\ answer.status = "idle"
  /\ \E request \in Requests, fault \in AnswerFaults :
       IF request.kind \in {"invalid", "empty_list"}
       THEN answer' = [status |-> "responded", via |-> "chat", call |-> NoCall, http |-> 500,
                       reply |-> NoReply, sources |-> <<>>]
       ELSE IF request.kind = "no_messages" \/ strip(request.content) = <<>>
       THEN answer' = [status |-> "responded", via |-> "chat", call |-> NoCall, http |-> 400,
                       reply |-> NoReply, sources |-> <<>>]
       ELSE \E result \in AnswerOutcomes(store, request.content, ChatTopK, "es", fault) :
              LET response == chat_response(result)
              IN answer' = [status |-> "responded", via |-> "chat", call |-> result,
                            http |-> response.http, reply |-> response.reply,
                            sources |-> response.sources]
  /\ UNCHANGED <<fs, upsert, retrieve, store, pc, idx, all_chunks, bi, total_processed, total_chunks, results, calls, search, chunking>>

NoSearch ==
  [query |-> <<>>, k |-> 0, locale |-> "", prefer_types |-> <<>>, fault |-> "none",
   vector_results |-> <<>>, text_results |-> <<>>, all_results |-> <<>>, status |-> "idle",
   ret |-> <<>>, closed |-> TRUE]

\* the rows a table can hold when a search starts: two documents, two positions,
\* two locales, two texts, with or without embedding
SearchRowContents ==
  {[doc_type |-> IF d = "X" THEN "kb" ELSE "guide", doc_id |-> d, title |-> <<d, 1>>, url |-> None,
    locale |-> l, chunk_index |-> c, text |-> t,
    embedding |-> IF embedded THEN Embedding(t) ELSE NoVector] :
     d \in {"X", "X_1"}, c \in 0..1, l \in {"es", "en"}, t \in {<<"a">>, <<"a", "b">>},
     embedded \in BOOLEAN}

\* the sets of at most n of these rows
RECURSIVE RowSetsUpTo(_)
RowSetsUpTo(n) ==
  IF n = 0 THEN {{}}
  ELSE LET smaller == RowSetsUpTo(n - 1)
       IN smaller \cup {c \cup {x} : c \in smaller, x \in SearchRowContents}

\* the tables of at most MaxRows rows; the id of a row is its rank in the table
RECURSIVE WithIds(_, _)
WithIds(contents, n) ==
  IF contents = {} THEN {}
  ELSE LET c == CHOOSE x \in contents : TRUE
       IN {[id |-> <<0, 0, n>>, doc_type |-> c.doc_type, doc_id |-> c.doc_id, title |-> c.title,
            url |-> c.url, locale |-> c.locale, chunk_index |-> c.chunk_index, text |-> c.text,
            embedding |-> c.embedding]} \cup WithIds(contents \ {c}, n + 1)

(***************************************************************************)
(* upsert_rows and upsert_chunks called on their own, over any table       *)
(***************************************************************************)
NoUpsert ==
  [status |-> "idle", fn |-> "", rows |-> <<>>, before |-> {}, outcome |-> "",
   opened |-> FALSE, closed |-> FALSE]

\* three row contents that differ in every column but the id
UpsertContents ==
  {[doc_type |-> "kb", doc_id |-> "X", title |-> <<"X", 1>>, url |-> None, locale |-> "es",
    chunk_index |-> 0, text |-> <<"a">>, embedding |-> Embedding(<<"a">>)],
   [doc_type |-> "guide", doc_id |-> "Y", title |-> <<"Y", 1>>, url |-> "u", locale |-> "en",
    chunk_index |-> 1, text |-> <<"a", "b">>, embedding |-> Embedding(<<"a", "b">>)],
   [doc_type |-> "guide", doc_id |-> "Y", title |-> <<"Y", 2>>, url |-> "u", locale |-> "es",
    chunk_index |-> 2, text |-> <<"b">>, embedding |-> NoVector]}

\* the rows a caller can pass: any of these contents under an id of the table or a new one
UpsertRowsArgs ==
  SeqsUpTo({[id |-> <<0, 0, n>>, doc_type |-> c.doc_type, doc_id |-> c.doc_id, title |-> c.title,
             url |-> c.url, locale |-> c.locale, chunk_index |-> c.chunk_index, text |-> c.text,
             embedding |-> c.embedding] : n \in 1..(MaxRows + 1), c \in UpsertContents},
           batch_size)

\* how a call can go: every statement and the commit succeed, a statement or the
\* commit fails, the connection cannot be opened, conn.cursor() fails
UpsertFaults == {"commit", "rollback", "connect_error", "cursor_error"}

\* upsert_rows(rows) or upsert_chunks(chunks), from call to return or raise
UpsertCall ==
  /\ upsert.status = "idle"
  /\ \E fn \in {"upsert_rows", "upsert_chunks"}, rows \in UpsertRowsArgs, outcome \in UpsertFaults :
       IF fn = "upsert_chunks" /\ rows = <<>>
       THEN /\ outcome = "commit"
            /\ upsert' = [status |-> "returned", fn |-> fn, rows |-> rows, before |-> store,
                          outcome |-> outcome, opened |-> FALSE, closed |-> FALSE]
            /\ store' = store
       ELSE /\ store' = IF outcome = "commit" THEN UpsertAll(store, rows, 1) ELSE store
            /\ upsert' =
                 [status |-> IF outcome = "commit" \/ (fn = "upsert_chunks" /\ outcome = "rollback")
                             THEN "returned" ELSE "raised",
                  fn |-> fn, rows |-> rows, before |-> store, outcome |-> outcome,
                  opened |-> outcome # "connect_error",
                  closed |-> outcome # "connect_error"
                             /\ ~(fn = "upsert_chunks" /\ outcome = "cursor_error")]
  /\ UNCHANGED <<fs, pc, idx, all_chunks, bi, total_processed, total_chunks, results, calls,
                 search, answer, chunking, retrieve>>

(***************************************************************************)
(* src/pg_retrieve.py: retrieve_context                                    *)
(***************************************************************************)
NoRetrieve ==
  [status |-> "idle", question |-> <<>>, top_k |-> 0, locale |-> "", fault |-> "none",
   opened |-> FALSE, closed |-> FALSE, ret |-> <<>>]

\* the calls of retrieve_context that can raise inside its try block
RetrieveFaults == {"none", "embedding", "connect", "cursor", "query"}

\* WHERE locale = %s OR locale IS NULL
RetrieveWhere(row, locale) == row.locale = locale

\* the dictionary built from one fetched row
RetrievedChunk(row, sim) ==
  [id |-> row.id, doc_type |-> row.doc_type, doc_id |-> row.doc_id, title |-> row.title,
   url |-> row.url, locale |-> row.locale, chunk_index |-> row.chunk_index, text |-> row.text,
   similarity |-> sim]

\* retrieve_context(question, top_k, locale) from call to return: every exception is
\* caught and answered with [], and finally closes the connection if it was opened
RetrieveContext ==
  /\ retrieve.status = "idle"
  /\ \E question \in Questions, top_k \in 0..MaxK, locale \in {"es", "en"}, fault \in RetrieveFaults :
       LET matching == {r \in store : RetrieveWhere(r, locale)}
           q == Embedding(question)
           Sim == [r \in matching |-> VectorSimilarity(r, q)]
       IN \E selected \in Select(matching, Sim, top_k) :
            LET float_raises == \E n \in 1..Len(selected) : Sim[selected[n]] = Null
                opened == fault \notin {"embedding", "connect"}
            IN retrieve' =
                 [status |-> "returned", question |-> question, top_k |-> top_k, locale |-> locale,
                  fault |-> fault, opened |-> opened, closed |-> opened,
                  ret |-> IF fault # "none" \/ float_raises THEN <<>>
                          ELSE [n \in 1..Len(selected) |-> RetrievedChunk(selected[n], Sim[selected[n]])]]
  /\ UNCHANGED <<fs, store, pc, idx, all_chunks, bi, total_processed, total_chunks, results, calls,
                 search, answer, chunking, upsert>>

InitLocals ==
  /\ store = {}
  /\ idx = [p \in Procs |-> 1]
  /\ all_chunks = [p \in Procs |-> <<>>]
  /\ bi = [p \in Procs |-> 0]
  /\ total_processed = [p \in Procs |-> 0]
  /\ total_chunks = [p \in Procs |-> 0]
  /\ results = [p \in Procs |-> <<>>]
  /\ calls = [p \in Procs |-> <<>>]
  /\ search = NoSearch
  /\ answer = NoAnswer
  /\ chunking = NoChunking
  /\ upsert = NoUpsert
  /\ retrieve = NoRetrieve

\* the files of both programs
FileSystems(first, second, a_md, b_pdf) ==
  {[x \in Paths \cup PgPaths |->
      IF x = pdfs_to_process[1].path THEN a
      ELSE IF x = pdfs_to_process[2].path THEN b
      ELSE IF x = PgCandidates[1].path THEN c ELSE d] :
     a \in first, b \in second, c \in a_md, d \in b_pdf}

\* the other document of a run whose one document is any of Documents
FewDocuments == {Missing, Corrupt, [kind |-> "pdf", pages |-> << <<" ", "a">> >>]}
PgFewDocuments == {Missing, Corrupt, [kind |-> "text", pages |-> << <<"a">> >>]}
NoFile == {Missing}

\* one run of sync_pdfs.main, or one run of pg_ingest.main, over an empty table;
\* one of the two PDFs is any document, the files of data/ are any files
Init ==
  /\ \/ /\ fs \in FileSystems(Documents, FewDocuments, NoFile, NoFile)
                  \cup FileSystems(FewDocuments, Documents, NoFile, NoFile)
        /\ pc = [p \in Procs |-> IF p = 1 THEN "main" ELSE "off"]
     \/ /\ fs \in FileSystems(NoFile, NoFile, PgDocuments, PgFewDocuments)
                  \cup FileSystems(NoFile, NoFile, PgFewDocuments, PgDocuments)
        /\ pc = [p \in Procs |-> IF p = 1 THEN "pg_main" ELSE "off"]
  /\ InitLocals

Next ==
  \E p \in Procs : IngestStart(p) \/ Batch(p) \/ MainDone(p) \/ PgFile(p) \/ PgDone(p)

Spec == Init /\ [][Next]_vars

\* two runs of main over the same files, one after the other or interleaved
InitTwoRuns ==
  /\ \/ /\ fs \in FileSystems(Documents, NoFile, NoFile, NoFile)
        /\ pc = [p \in Procs |-> "main"]
     \/ /\ fs \in FileSystems(NoFile, NoFile, PgDocuments, NoFile)
        /\ pc = [p \in Procs |-> "pg_main"]
  /\ InitLocals

SpecTwoRuns == InitTwoRuns /\ [][Next]_vars

\* searches against any table of at most MaxRows rows
InitSearch ==
  /\ fs \in FileSystems(NoFile, NoFile, NoFile, NoFile)
  /\ \E contents \in RowSetsUpTo(MaxRows) :
       store = WithIds(contents, 1)
  /\ pc = [p \in Procs |-> "off"]
  /\ idx = [p \in Procs |-> 1]
  /\ all_chunks = [p \in Procs |-> <<>>]
  /\ bi = [p \in Procs |-> 0]
  /\ total_processed = [p \in Procs |-> 0]
  /\ total_chunks = [p \in Procs |-> 0]
  /\ results = [p \in Procs |-> <<>>]
  /\ calls = [p \in Procs |-> <<>>]
  /\ search = NoSearch
  /\ answer = NoAnswer
  /\ chunking = NoChunking
  /\ upsert = NoUpsert
  /\ retrieve = NoRetrieve

NextSearch == SearchContext

\* chunk_text called with any text of at most MaxTextLen characters
InitChunk ==
  /\ fs \in FileSystems(NoFile, NoFile, NoFile, NoFile)
  /\ store = {}
  /\ pc = [p \in Procs |-> "off"]
  /\ idx = [p \in Procs |-> 1]
  /\ all_chunks = [p \in Procs |-> <<>>]
  /\ bi = [p \in Procs |-> 0]
  /\ total_processed = [p \in Procs |-> 0]
  /\ total_chunks = [p \in Procs |-> 0]
  /\ results = [p \in Procs |-> <<>>]
  /\ calls = [p \in Procs |-> <<>>]
  /\ search = NoSearch
  /\ answer = NoAnswer
  /\ \E text \in Texts, max_chars \in 0..MaxChars, overlap \in 0..MaxOverlap :
       chunking = Called(text, max_chars, overlap)
  /\ upsert = NoUpsert
  /\ retrieve = NoRetrieve

NextChunk == ChunkText

SpecChunk == InitChunk /\ [][NextChunk]_vars

\* the same calls run statement by statement
NextChunkLoop == ChunkEnter \/ ChunkIter \/ ChunkReturn

SpecChunkLoop == InitChunk /\ [][NextChunkLoop]_vars

\* the calls on texts of one letter and spaces, run statement by statement to their end
LoopTexts == SeqsUpTo({"a", " "}, MaxTextLen)

InitChunkLive ==
  /\ fs \in FileSystems(NoFile, NoFile, NoFile, NoFile)
  /\ store = {}
  /\ pc = [p \in Procs |-> "off"]
  /\ idx = [p \in Procs |-> 1]
  /\ all_chunks = [p \in Procs |-> <<>>]
  /\ bi = [p \in Procs |-> 0]
  /\ total_processed = [p \in Procs |-> 0]
  /\ total_chunks = [p \in Procs |-> 0]
  /\ results = [p \in Procs |-> <<>>]
  /\ calls = [p \in Procs |-> <<>>]
  /\ search = NoSearch
  /\ answer = NoAnswer
  /\ \E text \in LoopTexts, max_chars \in 0..MaxChars, overlap \in 0..MaxOverlap :
       chunking = Called(text, max_chars, overlap)
  /\ upsert = NoUpsert
  /\ retrieve = NoRetrieve

SpecChunkLive == InitChunkLive /\ [][NextChunkLoop]_vars /\ WF_vars(NextChunkLoop)

\* chunk_text on its own, and chunk_text inside the runs of Spec
InitChunkIngest == InitChunk \/ Init

NextChunkIngest == ChunkText \/ Next

SpecChunkIngest == InitChunkIngest /\ [][NextChunkIngest]_vars

\* questions answered against any table of at most MaxRows rows
InitAnswer == InitSearch

NextAnswer == AnswerWithContext \/ Chat

SpecAnswer == InitAnswer /\ [][NextAnswer]_vars

SpecSearch == InitSearch /\ [][NextSearch]_vars

\* upserts into any table made of the rows of UpsertContents
InitUpsert ==
  /\ fs \in FileSystems(NoFile, NoFile, NoFile, NoFile)
  /\ \E contents \in SUBSET UpsertContents : store = WithIds(contents, 1)
  /\ pc = [p \in Procs |-> "off"]
  /\ idx = [p \in Procs |-> 1]
  /\ all_chunks = [p \in Procs |-> <<>>]
  /\ bi = [p \in Procs |-> 0]
  /\ total_processed = [p \in Procs |-> 0]
  /\ total_chunks = [p \in Procs |-> 0]
  /\ results = [p \in Procs |-> <<>>]
  /\ calls = [p \in Procs |-> <<>>]
  /\ search = NoSearch
  /\ answer = NoAnswer
  /\ chunking = NoChunking
  /\ upsert = NoUpsert
  /\ retrieve = NoRetrieve

NextUpsert == UpsertCall

SpecUpsert == InitUpsert /\ [][NextUpsert]_vars

\* one call of one of the operations that open a connection, over any of these tables
Operations == {"search_context", "retrieve_context", "answer_with_context", "upsert"}

InitConnections ==
  /\ fs \in FileSystems(NoFile, NoFile, NoFile, NoFile)
  /\ \E contents \in SUBSET UpsertContents : store = WithIds(contents, 1)
  /\ pc = [p \in Procs |-> "off"]
  /\ idx = [p \in Procs |-> 1]
  /\ all_chunks = [p \in Procs |-> <<>>]
  /\ bi = [p \in Procs |-> 0]
  /\ total_processed = [p \in Procs |-> 0]
  /\ total_chunks = [p \in Procs |-> 0]
  /\ results = [p \in Procs |-> <<>>]
  /\ calls = [p \in Procs |-> <<>>]
  /\ chunking = NoChunking
  /\ \E op \in Operations :
       /\ search = IF op = "search_context" THEN NoSearch ELSE [NoSearch EXCEPT !.status = "off"]
       /\ retrieve = IF op = "retrieve_context" THEN NoRetrieve ELSE [NoRetrieve EXCEPT !.status = "off"]
       /\ answer = IF op = "answer_with_context" THEN NoAnswer ELSE [NoAnswer EXCEPT !.status = "off"]
       /\ upsert = IF op = "upsert" THEN NoUpsert ELSE [NoUpsert EXCEPT !.status = "off"]

NextConnections == SearchContext \/ RetrieveContext \/ AnswerWithContext \/ Chat \/ UpsertCall

SpecConnections == InitConnections /\ [][NextConnections]_vars

\* the same runs, with the processes never stopping while a step is possible
\* the runs of Init in which a PDF that is missing or cannot be read comes before or
\* after any document
InitLive ==
  /\ \/ /\ fs \in FileSystems(Documents, NoFile, NoFile, NoFile)
                  \cup FileSystems({Missing, Corrupt}, Documents, NoFile, NoFile)
        /\ pc = [p \in Procs |-> IF p = 1 THEN "main" ELSE "off"]
     \/ /\ fs \in FileSystems(NoFile, NoFile, PgDocuments, PgFewDocuments)
                  \cup FileSystems(NoFile, NoFile, PgFewDocuments, PgDocuments)
        /\ pc = [p \in Procs |-> IF p = 1 THEN "pg_main" ELSE "off"]
  /\ InitLocals

SpecLive == InitLive /\ [][Next]_vars /\ WF_vars(Next)

(***************************************************************************)
(* Vocabulary of the ingestion claims                                      *)
(***************************************************************************)
\* p is running sync_pdfs.main
Sync(p) == pc[p] \in {"main", "batch", "done"}

\* p is back in main after at least one ingest_pdf call; all_chunks[p], calls[p]
\* and the last entry of results[p] describe that call
Returned(p) == pc[p] = "main" /\ idx[p] > 1

LastResult(p) == results[p][Len(results[p])]

\* the rows of the table written by the current (or last) call of p
RunIds(p) == {all_chunks[p][k].id : k \in 1..Len(all_chunks[p])}
RunRows(p) == {r \in store : r.id \in RunIds(p)}

\* the ids of the chunks of one batch
BatchIds(p, c) == {all_chunks[p][k].id : k \in (c.lo + 1)..c.hi}

\* a batch failed when embed_batch or upsert_rows raised
Failed(c) == c.embed_raised \/ c.db_raised

RECURSIVE CountedChunks(_, _)
CountedChunks(cs, k) ==
  IF k > Len(cs) THEN 0
  ELSE (IF Failed(cs[k]) THEN 0 ELSE cs[k].hi - cs[k].lo) + CountedChunks(cs, k + 1)

\* number of batches of n chunks
NumBatches(n) == (n + batch_size - 1) \div batch_size

\* a page the pipeline can use: its text is not blank once cleaned
Usable(page) == page # <<>> /\ strip(clean_text(page)) # <<>>
NoUsableText(file) ==
  file.kind = "missing" \/ (file.kind = "pdf" /\ \A n \in 1..Len(file.pages) : ~Usable(file.pages[n]))

(***************************************************************************)
(* C1  Whatever the query, k >= 0 and the rows of the table (rows sharing  *)
(* a (doc_id, chunk_index) included), search_context returns at most k     *)
(* entries, no two of them with the same (doc_id, chunk_index).            *)
(***************************************************************************)
SameChunk(a, b) == a.doc_id = b.doc_id /\ a.chunk_index = b.chunk_index

C1_AtMostKNoDuplicates ==
  search.status # "idle" =>
    /\ Len(search.ret) <= search.k
    /\ \A i, j \in 1..Len(search.ret) : i # j => ~SameChunk(search.ret[i], search.ret[j])

\* both rows of the table share their (doc_id, chunk_index), both passes found
\* both, and one entry came back
C1_Witness ==
  /\ search.status = "returned"
  /\ search.k = 2
  /\ Len(search.vector_results) = 2
  /\ SameChunk(search.vector_results[1], search.vector_results[2])
  /\ Len(search.text_results) = 2
  /\ Len(search.ret) = 1

(***************************************************************************)
(* C2  After any sequence of ingestions, including ingesting the same      *)
(* document twice, the table holds at most one row per                     *)
(* (doc_id, chunk_index).                                                  *)
(***************************************************************************)
C2_OneRowPerDocChunk ==
  \A r1, r2 \in store :
    (r1.doc_id = r2.doc_id /\ r1.chunk_index = r2.chunk_index) => r1 = r2

(***************************************************************************)
(* C3  ingest_pdf returns without raising, and the value it returns is     *)
(* the number of chunks of the call that were embedded and upserted, which *)
(* is the number of rows the call committed.                               *)
(***************************************************************************)
C3_ReturnsEmbeddedAndStored ==
  \A p \in Procs :
    Returned(p) =>
      /\ ~LastResult(p).raised
      /\ LastResult(p).ret = Cardinality({r \in RunRows(p) : r.embedding # NoVector})
      /\ LastResult(p).ret = Cardinality(RunRows(p))

Content(r) ==
  [doc_type |-> r.doc_type, doc_id |-> r.doc_id, title |-> r.title, url |-> r.url,
   locale |-> r.locale, chunk_index |-> r.chunk_index, text |-> r.text, embedding |-> r.embedding]

\* the call of p ended with every batch embedded in full and committed
CleanRun(p) ==
  /\ Returned(p)
  /\ ~LastResult(p).raised
  /\ \A k \in 1..Len(calls[p]) :
       ~Failed(calls[p][k]) /\ calls[p][k].vectors = calls[p][k].hi - calls[p][k].lo

RunList(p) ==
  IF Sync(p) THEN pdfs_to_process
  ELSE IF pc[p] \in {"pg_main", "pg_done"} THEN discover_files(fs)
  ELSE <<>>

Finished(p) == pc[p] \in {"done", "pg_done", "off"}

AttemptedInOrder(p) ==
  /\ Len(results[p]) <= Len(RunList(p))
  /\ \A k \in 1..Len(results[p]) : results[p][k].path = RunList(p)[k].path
  /\ Finished(p) => Len(results[p]) = Len(RunList(p))

C8_RunNeverAborted ==
  /\ [](\A p \in Procs : AttemptedInOrder(p))
  /\ <>(\A p \in Procs : Finished(p))

C8_Witness ==
  \E p \in Procs :
    /\ pc[p] \in {"done", "pg_done"}
    /\ Len(results[p]) = 2
    /\ results[p][1].raised
    /\ ~results[p][2].raised
    /\ results[p][2].ret > 0

(***************************************************************************)
(* C9  For a missing file, and for a file with no page of usable text,     *)
(* ingest_pdf returns 0 without raising, without calling the embedding     *)
(* service and without changing the table.                                 *)
(***************************************************************************)
C9_NothingToIngest ==
  [][\A p \in Procs :
       (/\ pc[p] = "main"
        /\ idx[p] <= Len(pdfs_to_process)
        /\ NoUsableText(fs[pdfs_to_process[idx[p]].path])
        /\ <<pc[p], idx[p]>>' # <<pc[p], idx[p]>>)
       => /\ store' = store
          /\ calls'[p] = <<>>
          /\ pc'[p] = "main"
          /\ results'[p] = Append(results[p],
                [path |-> pdfs_to_process[idx[p]].path, raised |-> FALSE, ret |-> 0])]_vars

C9_Witness ==
  \E p \in Procs :
    /\ pc[p] = "done"
    /\ fs[pdfs_to_process[1].path].kind = "missing"
    /\ fs[pdfs_to_process[2].path].kind = "pdf"
    /\ Len(fs[pdfs_to_process[2].path].pages) = MaxPages
    /\ \E n \in 1..MaxPages : fs[pdfs_to_process[2].path].pages[n] # <<>>
    /\ NoUsableText(fs[pdfs_to_process[2].path])
    /\ \A k \in 1..2 : ~results[p][k].raised /\ results[p][k].ret = 0
    /\ store = {}

(***************************************************************************)
(* C10  chunk_index is one zero-based counter for the whole document:      *)
(* the chunks are numbered 0, 1, 2, ... in page order and, inside a page,  *)
(* in fragment order; the counter does not restart at a page; and a row is *)
(* stored with the chunk_index of its chunk.                               *)
(***************************************************************************)
\* the page a chunk was cut from (the title carries it)
PageOf(c) == c.title[2]

\* the fragments of a document in reading order: page after page, and the
\* fragments of a page in the order chunk_text returns them
RECURSIVE ReadingOrder(_, _)
ReadingOrder(pages, n) ==
  IF n > Len(pages) THEN <<>>
  ELSE (IF Usable(pages[n]) THEN chunk_text(clean_text(pages[n]), PdfMaxChars, PdfOverlap) ELSE <<>>)
       \o ReadingOrder(pages, n + 1)

C11_EmbeddingFailurePropagates ==
  (search.status # "idle" /\ search.fault = "embedding") => search.status = "raised"

(***************************************************************************)
(* C13  A database error in one sub-search either raises into the caller   *)
(* or empties that sub-search only: when the lexical query fails after     *)
(* the vector query answered, the vector results are still returned.       *)
(***************************************************************************)
C13_FailedSubSearchOnly ==
  (/\ search.status = "returned"
   /\ search.fault = "text_query"
   /\ search.vector_results # <<>>
   /\ \A n \in 1..Len(search.vector_results) : search.vector_results[n].similarity # Null) =>
     \A n \in 1..Len(search.vector_results) :
        \E j \in 1..Len(search.ret) : SameChunk(search.ret[j], search.vector_results[n])

(***************************************************************************)
(* C14  Against an empty table, or with filters no row satisfies,          *)
(* search_context returns the empty list and does not raise.               *)
(***************************************************************************)
\* the row has the locale and one of the doc_types the call asked for
Asked(row) ==
  /\ search.locale # "" => row.locale = search.locale
  /\ search.prefer_types # <<>> =>
       \E j \in 1..Len(search.prefer_types) : row.doc_type = search.prefer_types[j]

C14_NothingMatchesEmptyResult ==
  (search.status # "idle" /\ search.fault # "connect" /\ \A r \in store : ~Asked(r)) =>
     search.status = "returned" /\ search.ret = <<>>

\* a table with rows, none of them in the locale asked for
C14_Witness ==
  /\ search.status = "returned"
  /\ search.fault = "none"
  /\ search.k > 0
  /\ search.locale = "es"
  /\ store # {}
  /\ \A r \in store : r.locale # "es"
  /\ search.ret = <<>>

(***************************************************************************)
(* C15  Both sub-searches apply the filters given: every entry returned    *)
(* comes from a row with the locale asked for and a doc_type of the set    *)
(* asked for.  A filter that is not given restricts nothing: without       *)
(* filters, every row can be returned.                                     *)
(***************************************************************************)
\* the entry is what a sub-search selects from the row
FromRow(entry, row) ==
  /\ entry.doc_type = row.doc_type
  /\ entry.doc_id = row.doc_id
  /\ entry.title = row.title
  /\ entry.url = row.url
  /\ entry.text = row.text
  /\ entry.chunk_index = row.chunk_index

C12_EmbeddingFailureSurfaced ==
  (answer.status # "idle" /\ answer.call # NoCall /\ answer.call.fault = "embedding") =>
     /\ answer.call.raised
     /\ ~answer.call.connected /\ ~answer.call.queried /\ ~answer.call.generated
     /\ answer.call.rows = <<>>
     /\ answer.reply = NoReply /\ answer.sources = <<>>
     /\ answer.via = "direct" => answer.status = "raised"
     /\ answer.via = "chat" => answer.http = 500

\* a chat request over a table with rows, the embedding call failing
C12_Witness ==
  /\ answer.via = "chat"
  /\ answer.call.fault = "embedding"
  /\ answer.call.question # <<>>
  /\ store # {}
  /\ answer.http = 500

(***************************************************************************)
(* C16  answer_with_context retrieves the top_k rows nearest to the        *)
(* embedding of the question, nearest first, from the whole table: no row  *)
(* left out is nearer than a row retrieved, rows of every locale are       *)
(* candidates, and a row whose embedding is the query vector comes first.  *)
(***************************************************************************)
\* dist d1 sorts strictly before dist d2 in ORDER BY dist ASC
Nearer(d1, d2) == d1 # Null /\ (d2 = Null \/ d1[1] < d2[1])

\* the tuple is what the query selects from the row for this question
TupleOf(t, row, question) ==
  /\ t.doc_id = row.doc_id
  /\ t.chunk_index = row.chunk_index
  /\ t.text = row.text
  /\ t.dist = (IF row.embedding = NoVector THEN Null
               ELSE <<Abs(row.embedding[1] - Len(question))>>)

C16_NearestByVectorOnly ==
  (answer.status # "idle" /\ answer.call.queried /\ answer.call.fault # "query") =>
     LET rows == answer.call.rows
         q == answer.call.question
     IN /\ Len(rows) = Min(answer.call.top_k, Cardinality(store))
        /\ \A n \in 1..Len(rows) : \E r \in store : TupleOf(rows[n], r, q)
        /\ \A i, j \in 1..Len(rows) : i < j => ~Nearer(rows[j].dist, rows[i].dist)
        /\ \A r \in store :
             \/ \E n \in 1..Len(rows) : TupleOf(rows[n], r, q)
             \/ \A n \in 1..Len(rows) :
                  ~Nearer(IF r.embedding = NoVector THEN Null ELSE <<Abs(r.embedding[1] - Len(q))>>,
                          rows[n].dist)
        /\ (rows # <<>> /\ \E r \in store : r.embedding = <<Len(q)>>) => rows[1].dist = <<0>>

\* two rows in another locale than the call's; the one whose embedding is the
\* query vector is the only one retrieved
C16_Witness ==
  /\ answer.status = "returned"
  /\ answer.via = "direct"
  /\ answer.call.locale = "es"
  /\ answer.call.top_k = 1
  /\ Cardinality(store) = 2
  /\ \A r \in store : r.locale = "en" /\ r.embedding # NoVector
  /\ \E r \in store : r.embedding # <<Len(answer.call.question)>>
  /\ Len(answer.call.rows) = 1
  /\ answer.call.rows[1].dist = <<0>>

RECURSIVE WordsFrom(_, _, _, _)
WordsFrom(t, n, word, acc) ==
  IF n > Len(t) THEN (IF word = <<>> THEN acc ELSE Append(acc, word))
  ELSE IF t[n] \in Whitespace
       THEN WordsFrom(t, n + 1, <<>>, IF word = <<>> THEN acc ELSE Append(acc, word))
       ELSE WordsFrom(t, n + 1, Append(word, t[n]), acc)
Words(t) == WordsFrom(t, 1, <<>>, <<>>)

\* the words joined by single spaces
RECURSIVE Joined(_, _)
Joined(ws, n) ==
  IF n > Len(ws) THEN <<>>
  ELSE (IF n > 1 THEN <<" ">> ELSE <<>>) \o ws[n] \o Joined(ws, n + 1)
Normalized(t) == Joined(Words(t), 1)

C18_ShortTextOneFragment ==
  (chunking.status = "returned" /\ Len(Normalized(chunking.text)) <= chunking.max_chars) =>
     chunking.out = (IF Words(chunking.text) = <<>> THEN <<>> ELSE <<Normalized(chunking.text)>>)

\* a text of two words with whitespace to collapse and to trim, exactly max_chars long
\* once normalized
C18_Witness ==
  /\ chunking.status = "returned"
  /\ Len(Words(chunking.text)) = 2
  /\ Len(chunking.text) > Len(Normalized(chunking.text)) + 1
  /\ Len(Normalized(chunking.text)) = chunking.max_chars
  /\ Len(chunking.out) = 1

(***************************************************************************)
(* C19  For every text, max_chars >= 1 and overlap >= 0, no fragment       *)
(* chunk_text returns is longer than max_chars.                            *)
(***************************************************************************)
C19_FragmentsWithinMaxChars ==
  (chunking.status = "returned" /\ chunking.max_chars >= 1) =>
     \A n \in 1..Len(chunking.out) : Len(chunking.out[n]) <= chunking.max_chars

\* a text longer than max_chars, cut in several fragments, one of them full
C19_Witness ==
  /\ chunking.status = "returned"
  /\ chunking.max_chars = 2
  /\ chunking.overlap >= chunking.max_chars
  /\ Len(Normalized(chunking.text)) > chunking.max_chars
  /\ Len(chunking.out) >= 3
  /\ \E n \in 1..Len(chunking.out) : Len(chunking.out[n]) = chunking.max_chars

(***************************************************************************)
(* C20  No fragment chunk_text returns is empty or whitespace only, so no  *)
(* chunk built by ingest_pdf has an empty text.                            *)
(***************************************************************************)
C20_NoBlankFragment ==
  /\ chunking.status = "returned" =>
       \A n \in 1..Len(chunking.out) :
          \E j \in 1..Len(chunking.out[n]) : chunking.out[n][j] \notin Whitespace
  /\ \A p \in Procs :
       Sync(p) => \A k \in 1..Len(all_chunks[p]) :
          \E j \in 1..Len(all_chunks[p][k].text) : all_chunks[p][k].text[j] \notin Whitespace

\* the window of one character falls on the space between two words: that piece is
\* dropped and both words are returned
C20_Witness ==
  /\ chunking.status = "returned"
  /\ chunking.max_chars = 1
  /\ Normalized(chunking.text) = <<"a", " ", "b">>
  /\ chunking.out = << <<"a">>, <<"b">> >>

(***************************************************************************)
(* C21  chunk_text terminates for every text, max_chars >= 1 and           *)
(* overlap >= 0, overlap >= max_chars included: the window start grows at  *)
(* every iteration and the loop runs at most len(text) times.              *)
(***************************************************************************)
C21_ChunkTextTerminates ==
  /\ [](chunking.iterations <= Len(chunking.txt))
  /\ [][(chunking.status = "looping" /\ chunking'.status = "looping") => chunking'.i > chunking.i]_vars
  /\ <>(chunking.status = "returned")

\* a call with overlap >= max_chars that went through the loop, one step per character
C21_Witness ==
  /\ chunking.status = "returned"
  /\ chunking.max_chars >= 1
  /\ chunking.overlap >= chunking.max_chars
  /\ Len(chunking.txt) >= 4
  /\ chunking.iterations = Len(chunking.txt)

\* the windows of the finished call whose piece was appended to chunks
Accepted == SelectSeq(chunking.windows, LAMBDA w : w.kept)

\* the pieces of a sequence of windows, in order
PiecesOf(ws) == [k \in 1..Len(ws) |-> ws[k].piece]

\* the first position after window w
EndOf(w) == w.start + Len(w.piece)

RECURSIVE Concat(_)
Concat(ss) == IF ss = <<>> THEN <<>> ELSE Head(ss) \o Concat(Tail(ss))

\* a finished call that went through the loop, with max_chars >= 1
Looped == chunking.status = "returned" /\ chunking.max_chars >= 1 /\ chunking.windows # <<>>

\* position p of txt (from 0) lies in a returned fragment
InFragment(p) == \E k \in 1..Len(Accepted) : Accepted[k].start <= p /\ p < EndOf(Accepted[k])

\* the fragments are the accepted pieces, cut from txt where the windows say
FragmentsAreAccepted ==
  /\ chunking.out = PiecesOf(Accepted)
  /\ \A k \in 1..Len(chunking.windows) :
       LET w == chunking.windows[k]
       IN w.piece = Slice(chunking.txt, w.start, EndOf(w))

NonWhitespaceCovered ==
  \A p \in 0..(Len(chunking.txt) - 1) : chunking.txt[p + 1] \notin Whitespace => InFragment(p)

FragmentsInReadingOrder ==
  \A k \in 2..Len(Accepted) : Accepted[k - 1].start < Accepted[k].start

(***************************************************************************)
(* C22  as stated: every window starts at or before the end of the         *)
(* previous accepted window, every non-whitespace character of the text    *)
(* lies in a fragment, fragments are in reading order, and with overlap 0  *)
(* the concatenation of the fragments equals the normalized text.          *)
(***************************************************************************)
C22_FragmentsReconstructText ==
  Looped =>
    /\ FragmentsAreAccepted
    /\ \A k \in 2..Len(chunking.windows) :
         \E a \in 1..(k - 1) :
           /\ chunking.windows[a].kept
           /\ \A b \in (a + 1)..(k - 1) : ~chunking.windows[b].kept
           /\ chunking.windows[k].start <= EndOf(chunking.windows[a])
    /\ NonWhitespaceCovered
    /\ FragmentsInReadingOrder
    /\ chunking.overlap = 0 => Concat(chunking.out) = chunking.txt

(***************************************************************************)
(* C22  amended: every window starts at or before the end of the previous  *)
(* window, every non-whitespace character lies in a fragment, fragments    *)
(* are in reading order, and with overlap 0 the pieces of all windows      *)
(* concatenate to the normalized text; the fragments are the pieces that   *)
(* are not blank, so their concatenation equals the normalized text when   *)
(* max_chars >= 2 and the normalized text without the spaces of the        *)
(* dropped one-space windows when max_chars = 1.                           *)
(***************************************************************************)
C22_WindowsReconstructText ==
  Looped =>
    /\ FragmentsAreAccepted
    /\ \A k \in 2..Len(chunking.windows) :
         chunking.windows[k].start <= EndOf(chunking.windows[k - 1])
    /\ NonWhitespaceCovered
    /\ FragmentsInReadingOrder
    /\ chunking.overlap = 0 =>
         /\ Concat(PiecesOf(chunking.windows)) = chunking.txt
         /\ chunking.max_chars >= 2 => Concat(chunking.out) = chunking.txt
         /\ chunking.max_chars = 1 => Concat(chunking.out) = SelectSeq(chunking.txt, LAMBDA c : c # " ")

\* overlap 0, a trimmed window and a window starting on the space left behind
C22_Witness ==
  /\ Looped
  /\ chunking.overlap = 0
  /\ chunking.max_chars >= 2
  /\ Len(chunking.out) >= 2
  /\ \E k \in 1..Len(chunking.windows) :
       /\ Len(chunking.windows[k].piece) < chunking.max_chars
       /\ k < Len(chunking.windows)
       /\ Head(chunking.windows[k + 1].piece) = " "

\* the window txt[i:i + max_chars] that window w was cut from
WindowOf(w) == Slice(chunking.txt, w.start, w.start + chunking.max_chars)

\* window w does not reach the end of the text
Inner(w) == w.start + chunking.max_chars < Len(chunking.txt)

\* the character that follows the piece of w in the text is a space
EndsAtSpace(w) == EndOf(w) < Len(chunking.txt) /\ chunking.txt[EndOf(w) + 1] = " "

(***************************************************************************)
(* C23  as stated: every fragment whose window does not reach the end of   *)
(* the text is followed in the text by a space, unless its window holds    *)
(* no whitespace at all, and then the raw cut of max_chars is kept.        *)
(***************************************************************************)
C23_FragmentEndsAtSpace ==
  chunking.status = "returned" =>
    \A k \in 1..Len(chunking.windows) :
      LET w == chunking.windows[k]
      IN (w.kept /\ Inner(w)) =>
           IF \E q \in 1..Len(WindowOf(w)) : WindowOf(w)[q] \in Whitespace
           THEN EndsAtSpace(w)
           ELSE w.piece = WindowOf(w)

(***************************************************************************)
(* C23  amended: every fragment whose window does not reach the end of     *)
(* the text is followed in the text by a space, unless its window holds    *)
(* no space after its first character, and then the raw cut of max_chars   *)
(* is kept.                                                                *)
(***************************************************************************)
C23_FragmentEndsAtLaterSpace ==
  chunking.status = "returned" =>
    \A k \in 1..Len(chunking.windows) :
      LET w == chunking.windows[k]
      IN (w.kept /\ Inner(w)) =>
           IF \E q \in 2..Len(WindowOf(w)) : WindowOf(w)[q] = " "
           THEN EndsAtSpace(w) /\ Len(w.piece) < chunking.max_chars
           ELSE w.piece = WindowOf(w)

\* a trimmed fragment and a raw cut whose window only starts with a space
C23_Witness ==
  /\ chunking.status = "returned"
  /\ \E k \in 1..Len(chunking.windows) :
       LET w == chunking.windows[k]
       IN w.kept /\ Inner(w) /\ Len(w.piece) < chunking.max_chars /\ EndsAtSpace(w)
  /\ \E k \in 1..Len(chunking.windows) :
       LET w == chunking.windows[k]
       IN w.kept /\ Inner(w) /\ Head(WindowOf(w)) = " " /\ w.piece = WindowOf(w)

\* every word of the normalized text is shorter than max_chars
WordsShorterThanMax ==
  \A n \in 1..Len(Words(chunking.txt)) : Len(Words(chunking.txt)[n]) < chunking.max_chars

\* the piece of w begins where a word begins, a leading space aside
BeginsAtWordStart(w) ==
  \/ w.start = 0
  \/ Head(w.piece) = " "
  \/ chunking.txt[w.start] = " "

\* the piece of w ends where a word ends
EndsAtWordEnd(w) ==
  /\ w.piece[Len(w.piece)] # " "
  /\ EndOf(w) = Len(chunking.txt) \/ chunking.txt[EndOf(w) + 1] = " "

(***************************************************************************)
(* C24  for a text whose words are all shorter than max_chars, chunked     *)
(* with overlap > 0, every fragment begins at the start of a word and ends *)
(* at the end of a word, and the fragments are the function chunk_text of  *)
(* (text, max_chars, overlap).                                             *)
(***************************************************************************)
C24_FragmentsRespectWords ==
  (chunking.status = "returned" /\ chunking.overlap > 0 /\ WordsShorterThanMax) =>
    /\ chunking.out = chunk_text(chunking.text, chunking.max_chars, chunking.overlap)
    /\ \A k \in 1..Len(Accepted) : BeginsAtWordStart(Accepted[k]) /\ EndsAtWordEnd(Accepted[k])

\* the search ran both sub-searches and reached the merge
Merged == search.status = "returned" /\ search.fault = "none"

\* result n of a sub-search is the first of that sub-search for its (doc_id, chunk_index)
FirstOfChunk(found, n) == \A m \in 1..(n - 1) : ~SameChunk(found[m], found[n])

\* a sub-search returned the chunk of result x
FoundIn(found, x) == \E n \in 1..Len(found) : SameChunk(found[n], x)

(***************************************************************************)
(* C25  In the merge of search_context the vector results come first and   *)
(* the lexical results second: a chunk found by both sub-searches appears  *)
(* once, as the entry of the vector pass with its vector similarity, and a *)
(* lexical result is added only if its (doc_id, chunk_index) was not       *)
(* already included.                                                       *)
(***************************************************************************)
C25_VectorFirstThenNewLexical ==
  Merged =>
    LET all_results == search.all_results
        vector_results == search.vector_results
        text_results == search.text_results
    IN /\ \A a, b \in 1..Len(all_results) : a # b => ~SameChunk(all_results[a], all_results[b])
       /\ \A a, b \in 1..Len(all_results) :
            (all_results[a].pass = "vector" /\ all_results[b].pass = "text") => a < b
       /\ \A n \in 1..Len(vector_results) :
            \E a \in 1..Len(all_results) :
              /\ SameChunk(all_results[a], vector_results[n])
              /\ all_results[a].pass = "vector"
              /\ FirstOfChunk(vector_results, n) => all_results[a] = vector_results[n]
       /\ \A n \in 1..Len(text_results) :
            IF FoundIn(vector_results, text_results[n])
            THEN text_results[n] \notin {all_results[a] : a \in 1..Len(all_results)}
            ELSE FirstOfChunk(text_results, n) =>
                   \E a \in 1..Len(all_results) : all_results[a] = text_results[n]
       /\ \A a \in 1..Len(all_results) :
            \/ /\ all_results[a].pass = "vector"
               /\ \E n \in 1..Len(vector_results) : all_results[a] = vector_results[n]
            \/ /\ all_results[a].pass = "text"
               /\ \E n \in 1..Len(text_results) : all_results[a] = text_results[n]
               /\ ~FoundIn(vector_results, all_results[a])

\* two chunks found by both passes, the lexical scores differing from the vector scores
C25_Witness ==
  /\ Merged
  /\ Len(search.all_results) = 2
  /\ Len(search.text_results) = 2
  /\ \A m \in 1..2 :
       \E n \in 1..2 :
         /\ SameChunk(search.vector_results[n], search.text_results[m])
         /\ search.vector_results[n].similarity # Null
         /\ search.vector_results[n].similarity # search.text_results[m].similarity

\* the place of entry x in a sequence that holds it once
PlaceIn(xs, x) == CHOOSE a \in 1..Len(xs) : xs[a] = x

\* x has a higher score than y; equal scores: x and y both have one and they are equal
Higher(x, y) == x.similarity # Null /\ y.similarity # Null /\ x.similarity[1] > y.similarity[1]
Tied(x, y) == x.similarity # Null /\ y.similarity # Null /\ x.similarity[1] = y.similarity[1]

\* x comes before y in the merge: vector pass first, then the order of the sub-search
MergedBefore(x, y) ==
  \/ x.pass = "vector" /\ y.pass = "text"
  \/ /\ x.pass = y.pass
     /\ LET found == IF x.pass = "vector" THEN search.vector_results ELSE search.text_results
        IN PlaceIn(found, x) < PlaceIn(found, y)

BatchesPartition(p) ==
  LET n == Len(all_chunks[p])
      cs == calls[p]
  IN /\ \A k \in 1..Len(cs) :
          /\ cs[k].lo = (IF k = 1 THEN 0 ELSE cs[k - 1].hi)
          /\ cs[k].hi - cs[k].lo \in 1..batch_size
          /\ cs[k].hi <= n
     /\ Returned(p) /\ n > 0 => cs[Len(cs)].hi = n
     /\ Returned(p) =>
          \A c \in 1..n : Cardinality({k \in 1..Len(cs) : cs[k].lo < c /\ c <= cs[k].hi}) = 1

\* upsert_rows was called for batch c
UpsertCalled(c) == ~c.embed_raised

Committed == upsert.status = "returned" /\ upsert.opened /\ upsert.outcome = "commit"

\* the positions in the written rows that carry id
WritesOf(id) == {n \in 1..Len(upsert.rows) : upsert.rows[n].id = id}

FirstWrite(id) == upsert.rows[CHOOSE n \in WritesOf(id) : \A m \in WritesOf(id) : n <= m]
LastWrite(id) == upsert.rows[CHOOSE n \in WritesOf(id) : \A m \in WritesOf(id) : n >= m]

\* row r carries the replaceable columns of w
SameContent(r, w) ==
  /\ r.text = w.text
  /\ r.embedding = w.embedding
  /\ r.title = w.title
  /\ r.url = w.url
  /\ r.locale = w.locale

\* row r carries the key columns of w
SameKey(r, w) ==
  /\ r.id = w.id
  /\ r.doc_type = w.doc_type
  /\ r.doc_id = w.doc_id
  /\ r.chunk_index = w.chunk_index

(***************************************************************************)
(* C28  The upsert keeps id unique and immutable: a row with a new id is   *)
(* inserted, a row with an existing id replaces only text, embedding,      *)
(* title, url and locale of the row that holds the id, whose id, doc_type, *)
(* doc_id and chunk_index stay; every other row is unchanged and the       *)
(* number of rows never decreases.                                         *)
(***************************************************************************)
C28_UpsertKeepsIdAndFrame ==
  upsert.status # "idle" =>
    /\ \A r1, r2 \in store : r1.id = r2.id => r1 = r2
    /\ Cardinality(store) >= Cardinality(upsert.before)
    /\ ~Committed => store = upsert.before
    /\ Committed =>
         /\ {r.id : r \in store} = {r.id : r \in upsert.before} \cup {upsert.rows[n].id : n \in 1..Len(upsert.rows)}
         /\ \A r \in upsert.before : WritesOf(r.id) = {} => r \in store
         /\ \A r \in store :
              WritesOf(r.id) # {} =>
                /\ SameContent(r, LastWrite(r.id))
                /\ IF \E b \in upsert.before : b.id = r.id
                   THEN \E b \in upsert.before : SameKey(r, b)
                   ELSE SameKey(r, FirstWrite(r.id))

\* one call that updated a row of another document and inserted a new row, a third
\* row of the table being left alone
C28_Witness ==
  /\ Committed
  /\ Len(upsert.rows) = 2
  /\ \E b \in upsert.before :
       /\ b.id = upsert.rows[1].id
       /\ b.doc_id # upsert.rows[1].doc_id
       /\ b.chunk_index # upsert.rows[1].chunk_index
       /\ b.text # upsert.rows[1].text
  /\ \A b \in upsert.before : b.id # upsert.rows[2].id
  /\ \E b \in upsert.before : WritesOf(b.id) = {}
  /\ Cardinality(store) = Cardinality(upsert.before) + 1

\* the piece of window v is a proper suffix of the piece of window w: it starts
\* inside w and ends where w ends
ProperSuffix(v, w) == w.start < v.start /\ EndOf(v) = EndOf(w)

(***************************************************************************)
(* C29  The fragment that holds the last character of the text is the last *)
(* one emitted: once a window has reached the end of the text no further   *)
(* fragment is emitted, and no fragment is a proper suffix of an earlier   *)
(* fragment.                                                               *)
(***************************************************************************)
C29_LastWindowEndsTheLoop ==
  Looped =>
    /\ \A k \in 1..Len(Accepted) :
         EndOf(Accepted[k]) = Len(chunking.txt) => k = Len(Accepted)
    /\ \A k \in 1..Len(chunking.windows) :
         ~Inner(chunking.windows[k]) =>
           \A m \in (k + 1)..Len(chunking.windows) : ~chunking.windows[m].kept
    /\ \A a, b \in 1..Len(Accepted) :
         a < b => ~ProperSuffix(Accepted[b], Accepted[a])

(***************************************************************************)
(* C30  Every database connection opened by search_context,                *)
(* retrieve_context, answer_with_context, upsert_rows or upsert_chunks is  *)
(* closed when the operation ends, whether it returns or the query, the    *)
(* embedding call or the write fails.                                      *)
(***************************************************************************)
C30_OpenedConnectionsClosed ==
  /\ (search.status \in {"returned", "raised"} /\ search.fault # "connect") => search.closed
  /\ (retrieve.status = "returned" /\ retrieve.opened) => retrieve.closed
  /\ (answer.status \in {"returned", "raised", "responded"} /\ answer.call.queried) => answer.call.closed
  /\ (upsert.status \in {"returned", "raised"} /\ upsert.opened) => upsert.closed

====
